---- MODULE Spec2Model ----
(***************************************************************************)
(* The face-enrollment wizard of app.py as a state machine.                *)
(*                                                                         *)
(* app.py is a Streamlit script: every user event (a widget edit, a button *)
(* click, a submitted or cleared photo, a plain rerun) runs the script     *)
(* top to bottom against the session state and the widget state, and       *)
(* st.rerun() runs it again at once with every button reading False.       *)
(* An action below is one user event together with the script run(s) it    *)
(* causes.  Every access to st.session_state is a point at which the       *)
(* script runner stops the run when another event of the session has       *)
(* arrived; the runs that write several keys (Start Enrollment, Accept)    *)
(* therefore also have actions in which the run ends between two writes.   *)
(***************************************************************************)
EXTENDS Integers, Sequences, FiniteSets, TLC

\* ------------------------------------------------------------------ bounds
MaxFrameId == 2     \* distinct frames the camera can deliver per outcome
MaxFaces == 2       \* largest number of faces the detector reports
MaxNow == 3         \* readings of the clock (runs of the final page)
MaxZipLen == 3      \* longest mapping handed to build_zip on its own

\* ------------------------------------------------------------------ config
POSES ==
  << [key |-> "front", instruction |-> "Look straight at the camera"],
     [key |-> "left",  instruction |-> "Turn your head slightly LEFT"],
     [key |-> "right", instruction |-> "Turn your head slightly RIGHT"],
     [key |-> "up",    instruction |-> "Tilt your head UP"],
     [key |-> "down",  instruction |-> "Tilt your head DOWN"] >>

\* the pose keys in POSES order
PoseKeys == [i \in 1..Len(POSES) |-> POSES[i].key]

\* POSES[step] with Python's 0-based index
PoseAt(s) == POSES[s + 1]

\* ------------------------------------------------------------------ values
\* A camera frame, described by what the helpers do with it: how many
\* regions detectMultiScale reports, whether the detector can process it at
\* all, whether img.save(format="JPEG") succeeds, and whether it carries the
\* guide ellipse drawn by overlay_face_outline.
AllFrames ==
  [id : 1..MaxFrameId, faces : 0..MaxFaces, detectable : BOOLEAN,
   encodable : BOOLEAN, overlay : BOOLEAN]

\* frames the camera widget can deliver (raw, one representative per outcome)
Frames ==
  { f \in AllFrames :
      /\ ~f.overlay
      /\ (~f.detectable => (f.faces = 0 /\ f.encodable))
      /\ (f.faces # 1 => f.encodable) }

\* camera_input returns None while no photo is taken
NoPhoto ==
  [id |-> 0, faces |-> 0, detectable |-> FALSE, encodable |-> FALSE,
   overlay |-> FALSE]

\* values of the two text inputs ("" is the default and is falsy)
Names == {"", "Al"}
EmpIds == {"", "E1"}

\* a key of st.session_state that was never assigned
Unset == "<unset>"

\* ----------------------------------------------------------------- helpers
\* validate_single_face raises when the detector cannot process the image
validate_raises(img) == ~img.detectable

\* mutant: any image with a face passes
validate_single_face_AtLeastOne(img) == img.faces >= 1

validate_single_face(img) == img.faces = 1

overlay_face_outline(img) == [img EXCEPT !.overlay = TRUE]

\* a dict's keys in insertion order; a dict is a sequence of (pose, img) items
Keys(d) == [i \in 1..Len(d) |-> d[i].pose]

\* d[k] = v on a dict: an existing key keeps its place, a new key is appended
DictSet(d, k, v) ==
  IF \E i \in 1..Len(d) : d[i].pose = k
  THEN [i \in 1..Len(d) |-> IF d[i].pose = k THEN [pose |-> k, img |-> v] ELSE d[i]]
  ELSE Append(d, [pose |-> k, img |-> v])

\* datetime.utcnow().isoformat() of the clock reading t
isoformat(t) == "T" \o ToString(t)

\* json.dumps(metadata, indent=2): the members in the record's order, a string
\* as a JSON string, the list of poses as a JSON array of JSON strings
JString(s) == [type |-> "string", text |-> s]

JArray(xs) == [type |-> "array", items |-> [i \in 1..Len(xs) |-> JString(xs[i])]]

json_dumps(md) ==
  << [key |-> "employee_id", value |-> JString(md.employee_id)],
     [key |-> "name",        value |-> JString(md.name)],
     [key |-> "poses",       value |-> JArray(md.poses)],
     [key |-> "timestamp",   value |-> JString(md.timestamp)],
     [key |-> "source",      value |-> JString(md.source)] >>

\* json.loads: the object whose members are those of the document
JMember(doc, k) == (CHOOSE i \in 1..Len(doc) : doc[i].key = k)

json_loads(doc) ==
  [k \in {doc[i].key : i \in 1..Len(doc)} |->
     LET v == doc[JMember(doc, k)].value
     IN IF v.type = "array"
        THEN [i \in 1..Len(v.items) |-> v.items[i].text]
        ELSE v.text]

\* img.save(img_bytes, format="JPEG") followed by getvalue()
jpeg_bytes(img) == [jpeg_of |-> img]

\* build_zip raises when an image cannot be encoded
build_zip_raises(imgs) == \E i \in 1..Len(imgs) : ~imgs[i].img.encodable

\* mutant: metadata.json is written before the images
build_zip_MetadataFirst(imgs, md) ==
  [i \in 1..Len(imgs) + 1 |->
     IF i = 1
     THEN [name |-> "metadata.json", data |-> json_dumps(md)]
     ELSE [name |-> imgs[i - 1].pose \o ".jpg", data |-> jpeg_bytes(imgs[i - 1].img)]]

\* the entries of the archive build_zip returns, in the order written
build_zip(imgs, md) ==
  [i \in 1..Len(imgs) + 1 |->
     IF i <= Len(imgs)
     THEN [name |-> imgs[i].pose \o ".jpg", data |-> jpeg_bytes(imgs[i].img)]
     ELSE [name |-> "metadata.json", data |-> json_dumps(md)]]

\* no archive
NoZip == << >>

\* file_name of the download button
file_name(eid, nm) == eid \o "_" \o nm \o ".zip"

\* mutant: the poses are listed latest first
MakeMetadata_Reversed(eid, nm, imgs, t) ==
  [employee_id |-> eid, name |-> nm,
   poses |-> [i \in 1..Len(imgs) |-> imgs[Len(imgs) + 1 - i].pose],
   timestamp |-> isoformat(t), source |-> "streamlit-frontend-preview"]

\* the metadata record of the final page
MakeMetadata(eid, nm, imgs, t) ==
  [employee_id |-> eid, name |-> nm, poses |-> Keys(imgs),
   timestamp |-> isoformat(t), source |-> "streamlit-frontend-preview"]

NoMeta ==
  [employee_id |-> "", name |-> "", poses |-> << >>, timestamp |-> "",
   source |-> ""]

\* ------------------------------------------------------------------- state
VARIABLES
  page, step, images, name, emp_id,   \* st.session_state
  wName, wEmpId, wConsent, photo,     \* widget state kept across reruns
  msg, buttons, preview,              \* what the last run rendered
  metadata, zip_buffer,               \* locals of the last final-page run
  now, nBuilds,                       \* clock readings, metadata records built
  lastEvent                           \* the user event that caused the last run

session == <<page, step, images, name, emp_id>>
widgets == <<wName, wEmpId, wConsent, photo>>
rendered == <<msg, buttons, preview>>
packaging == <<metadata, zip_buffer, now, nBuilds>>
vars == <<session, widgets, rendered, packaging, lastEvent>>

\* --------------------------------------------------------------- rendering
\* the intro page without a successful start: the three inputs and the button
RenderIntro(m) ==
  /\ msg' = m
  /\ buttons' = {"start"}
  /\ preview' = NoPhoto

\* the capture page up to the two buttons, for the photo ph of the widget
\* (line 111 has found POSES[step])
RenderCapture(ph) ==
  IF ph = NoPhoto
  THEN msg' = "none" /\ buttons' = {} /\ preview' = NoPhoto
  ELSE IF validate_raises(ph)
  THEN msg' = "exception" /\ buttons' = {} /\ preview' = NoPhoto
  ELSE IF ~validate_single_face(ph)
  THEN msg' = "face_error" /\ buttons' = {} /\ preview' = NoPhoto
  ELSE /\ msg' = "none"
       /\ buttons' = {"retake", "accept"}
       /\ preview' = overlay_face_outline(ph)

\* mutant: an image that cannot be encoded is skipped and the rest is offered
RunFinal_SkipsFailed(imgs, nm, eid) ==
  /\ now < MaxNow
  /\ now' = now + 1
  /\ nBuilds' = nBuilds + 1
  /\ metadata' = MakeMetadata(eid, nm, imgs, now)
  /\ preview' = NoPhoto
  /\ zip_buffer' = build_zip(SelectSeq(imgs, LAMBDA it : it.img.encodable), metadata')
  /\ msg' = "success"
  /\ buttons' = {"download"}

\* the final page: one metadata record, one archive, the download button
RunFinal(imgs, nm, eid) ==
  /\ now < MaxNow
  /\ now' = now + 1
  /\ nBuilds' = nBuilds + 1
  /\ metadata' = MakeMetadata(eid, nm, imgs, now)
  /\ preview' = NoPhoto
  /\ IF build_zip_raises(imgs)
     THEN zip_buffer' = NoZip /\ msg' = "exception" /\ buttons' = {}
     ELSE /\ zip_buffer' = build_zip(imgs, metadata')
          /\ msg' = "success"
          /\ buttons' = {"download"}

\* ------------------------------------------------------------------ events
\* intro: typing in a text input or ticking the box reruns the intro page
EnterName ==
  /\ page = "intro"
  /\ \E v \in Names \ {wName} : wName' = v
  /\ RenderIntro("none")
  /\ lastEvent' = "edit"
  /\ UNCHANGED <<session, wEmpId, wConsent, photo, packaging>>

EnterEmpId ==
  /\ page = "intro"
  /\ \E v \in EmpIds \ {wEmpId} : wEmpId' = v
  /\ RenderIntro("none")
  /\ lastEvent' = "edit"
  /\ UNCHANGED <<session, wName, wConsent, photo, packaging>>

ToggleConsent ==
  /\ page = "intro"
  /\ wConsent' = ~wConsent
  /\ RenderIntro("none")
  /\ lastEvent' = "edit"
  /\ UNCHANGED <<session, wName, wEmpId, photo, packaging>>

\* mutant: the employee id is not required
StartGuard_NoEmpId(n, e, c) == n # "" /\ c

\* the condition under which Start Enrollment proceeds: name and emp_id and consent
StartGuard_NoConsent(n, e, c) == n # "" /\ e # ""

StartGuard(n, e, c) == n # "" /\ e # "" /\ c

\* intro: the Start Enrollment button
StartEnrollment ==
  /\ page = "intro"
  /\ "start" \in buttons
  /\ lastEvent' = "start"
  /\ IF ~StartGuard(wName, wEmpId, wConsent)
     THEN /\ RenderIntro("intro_error")
          /\ UNCHANGED <<session, widgets, packaging>>
     ELSE /\ name' = wName
          /\ emp_id' = wEmpId
          /\ page' = "capture"
          \* st.rerun(): the capture page; the intro widgets are gone
          /\ wName' = "" /\ wEmpId' = "" /\ wConsent' = FALSE
          /\ RenderCapture(photo)
          /\ UNCHANGED <<step, images, photo, packaging>>

\* the st.session_state accesses of lines 97-99 at which the run of a
\* successful Start Enrollment click can be stopped by another event
StartCuts == {"before_emp_id", "before_page"}

\* intro: Start Enrollment, the run stopped after line 97 or after line 98
StartEnrollmentCut ==
  /\ page = "intro"
  /\ "start" \in buttons
  /\ StartGuard(wName, wEmpId, wConsent)
  /\ \E k \in StartCuts :
       /\ name' = wName
       /\ emp_id' = IF k = "before_page" THEN wEmpId ELSE emp_id
  /\ RenderIntro("none")
  /\ lastEvent' = "start_cut"
  /\ UNCHANGED <<page, step, images, widgets, packaging>>

\* capture: the camera widget delivers a new frame
SubmitPhoto ==
  /\ page = "capture"
  /\ step < Len(POSES)
  /\ photo = NoPhoto
  /\ \E f \in Frames : photo' = f
  /\ RenderCapture(photo')
  /\ lastEvent' = "submit"
  /\ UNCHANGED <<session, wName, wEmpId, wConsent, packaging>>

\* capture: the camera widget's own "Clear photo"
ClearPhoto ==
  /\ page = "capture"
  /\ step < Len(POSES)
  /\ photo # NoPhoto
  /\ photo' = NoPhoto
  /\ RenderCapture(photo')
  /\ lastEvent' = "clear"
  /\ UNCHANGED <<session, wName, wEmpId, wConsent, packaging>>

\* mutant: Retake keeps the frame under the current pose before rerunning
Retake_Stores ==
  /\ page = "capture"
  /\ step < Len(POSES)
  /\ "retake" \in buttons
  /\ images' = DictSet(images, PoseAt(step).key, photo)
  /\ RenderCapture(photo)
  /\ lastEvent' = "retake"
  /\ UNCHANGED <<page, step, name, emp_id, widgets, packaging>>

\* capture: the Retake button; st.rerun() runs the page again
Retake ==
  /\ page = "capture"
  /\ step < Len(POSES)
  /\ "retake" \in buttons
  /\ RenderCapture(photo)
  /\ lastEvent' = "retake"
  /\ UNCHANGED <<session, widgets, packaging>>

\* mutant: the preview with the guide ellipse is stored
AcceptImages_Preview(ph) == DictSet(images, PoseAt(step).key, overlay_face_outline(ph))

\* the session state after the body of the Accept branch
AcceptImages(ph) == DictSet(images, PoseAt(step).key, ph)

AcceptStep == step + 1

\* mutant: the wizard finishes one pose early
AcceptPage_OneEarly == IF AcceptStep >= Len(POSES) - 1 THEN "final" ELSE page

AcceptPage == IF AcceptStep >= Len(POSES) THEN "final" ELSE page

\* capture: the Accept & Continue button
Accept ==
  /\ page = "capture"
  /\ step < Len(POSES)
  /\ "accept" \in buttons
  /\ lastEvent' = "accept"
  /\ IF photo = NoPhoto \/ validate_raises(photo) \/ ~validate_single_face(photo)
     THEN /\ RenderCapture(photo)
          /\ UNCHANGED <<session, widgets, packaging>>
     ELSE /\ images' = AcceptImages(photo)
          /\ step' = AcceptStep
          /\ page' = AcceptPage
          /\ UNCHANGED <<name, emp_id, wName, wEmpId, wConsent>>
          \* st.rerun()
          /\ IF page' = "capture"
             THEN /\ RenderCapture(photo)
                  /\ UNCHANGED <<photo, packaging>>
             ELSE /\ photo' = NoPhoto   \* the camera widget is no longer drawn
                  /\ RunFinal(images', name, emp_id)

\* the st.session_state accesses of lines 134-137 at which the run of an
\* Accept click can be stopped by another event
AcceptCuts == {"before_step", "before_page"}

\* capture: Accept & Continue, the run stopped after line 133 or after line 134
AcceptCut ==
  /\ page = "capture"
  /\ step < Len(POSES)
  /\ "accept" \in buttons
  /\ photo # NoPhoto /\ ~validate_raises(photo) /\ validate_single_face(photo)
  /\ \E k \in AcceptCuts :
       /\ images' = AcceptImages(photo)
       /\ step' = IF k = "before_page" THEN AcceptStep ELSE step
  /\ RenderCapture(photo)
  /\ lastEvent' = "accept_cut"
  /\ UNCHANGED <<page, name, emp_id, widgets, packaging>>

\* capture with step = len(POSES): every run raises IndexError at line 111,
\* before the camera widget, whatever the event that caused it
CaptureIndexError ==
  /\ page = "capture"
  /\ step >= Len(POSES)
  /\ msg' = "exception"
  /\ buttons' = {}
  /\ preview' = NoPhoto
  /\ photo' = NoPhoto
  /\ lastEvent' = "any"
  /\ UNCHANGED <<session, wName, wEmpId, wConsent, packaging>>

\* mutant: the session is cleared once the archive is handed over
Download_ClearsSession ==
  /\ page = "final"
  /\ "download" \in buttons
  /\ RunFinal(images, name, emp_id)
  /\ lastEvent' = "download"
  /\ images' = << >>
  /\ step' = 0
  /\ UNCHANGED <<page, name, emp_id, widgets>>

\* final: the download button; the click reruns the script
Download ==
  /\ page = "final"
  /\ "download" \in buttons
  /\ RunFinal(images, name, emp_id)
  /\ lastEvent' = "download"
  /\ UNCHANGED <<session, widgets>>

\* a rerun with no widget changed (the app menu's Rerun)
RerunIntro ==
  /\ page = "intro"
  /\ RenderIntro("none")
  /\ lastEvent' = "rerun"
  /\ UNCHANGED <<session, widgets, packaging>>

RerunCapture ==
  /\ page = "capture"
  /\ step < Len(POSES)
  /\ RenderCapture(photo)
  /\ lastEvent' = "rerun"
  /\ UNCHANGED <<session, widgets, packaging>>

RerunFinal ==
  /\ page = "final"
  /\ RunFinal(images, name, emp_id)
  /\ lastEvent' = "rerun"
  /\ UNCHANGED <<session, widgets>>

\* ----------------------------------------------------------- specification
\* a fresh session after its first run: lines 67-74, then the intro page
Init ==
  /\ page = "intro"
  /\ step = 0
  /\ images = << >>
  /\ name = Unset
  /\ emp_id = Unset
  /\ wName = "" /\ wEmpId = "" /\ wConsent = FALSE
  /\ photo = NoPhoto
  /\ msg = "none"
  /\ buttons = {"start"}
  /\ preview = NoPhoto
  /\ metadata = NoMeta
  /\ zip_buffer = NoZip
  /\ now = 0
  /\ nBuilds = 0
  /\ lastEvent = "open"

Next ==
  \/ EnterName
  \/ EnterEmpId
  \/ ToggleConsent
  \/ StartEnrollment
  \/ StartEnrollmentCut
  \/ SubmitPhoto
  \/ ClearPhoto
  \/ Retake
  \/ Accept
  \/ AcceptCut
  \/ CaptureIndexError
  \/ Download
  \/ RerunIntro
  \/ RerunCapture
  \/ RerunFinal

Spec == Init /\ [][Next]_vars

\* ------------------------------------------------------ session reset
\* st.session_state of a session that has just been opened: no key at all
NewSessionState == << >>

\* lines 67-74: a key is given its default only when the session lacks it
InitPage(ss) == IF "page" \in DOMAIN ss THEN ss.page ELSE "intro"

InitStep(ss) == IF "step" \in DOMAIN ss THEN ss.step ELSE 0

\* mutant: the mapping of the session before is taken over
InitImages_Shared(ss) == images

InitImages(ss) == IF "images" \in DOMAIN ss THEN ss.images ELSE << >>

\* name and emp_id are keys of the session only once line 97-98 have run
SessionIdentity(ss, k) == IF k \in DOMAIN ss THEN ss[k] ELSE Unset

\* the browser opens a new session (a reload, a new tab) while the one before
\* is in any state: the script runs once against the new session's state
NewSession ==
  /\ lastEvent' = "reset"
  /\ page' = InitPage(NewSessionState)
  /\ step' = InitStep(NewSessionState)
  /\ images' = InitImages(NewSessionState)
  /\ name' = SessionIdentity(NewSessionState, "name")
  /\ emp_id' = SessionIdentity(NewSessionState, "emp_id")
  /\ wName' = "" /\ wEmpId' = "" /\ wConsent' = FALSE
  /\ photo' = NoPhoto
  /\ RenderIntro("none")
  /\ metadata' = NoMeta
  /\ zip_buffer' = NoZip
  /\ nBuilds' = 0
  /\ UNCHANGED now

NextSessions ==
  \/ Next
  \/ NewSession

SpecSessions == Init /\ [][NextSessions]_vars

\* ------------------------------------------------- build_zip on its own
\* images as build_zip may receive them: any frames under distinct pose keys
ZipFrames == { f \in Frames : f.id = 1 /\ f.detectable /\ f.faces = 1 }

ZipMappings ==
  { d \in UNION { [1..n -> [pose : {POSES[i].key : i \in 1..Len(POSES)},
                            img : ZipFrames]] : n \in 0..MaxZipLen } :
      \A i, j \in 1..Len(d) : d[i].pose = d[j].pose => i = j }

ZipMetadata ==
  [employee_id : {"E1"}, name : {"", "Al"},
   poses : {<< >>, <<"front", "left">>, <<"left", "front">>},
   timestamp : {"2024-01-01T00:00:00"},
   source : {"x", "streamlit-frontend-preview"}]

ZipInit ==
  /\ page = "final"
  /\ step = 0
  /\ images \in ZipMappings
  /\ name = Unset
  /\ emp_id = Unset
  /\ wName = "" /\ wEmpId = "" /\ wConsent = FALSE
  /\ photo = NoPhoto
  /\ msg = "none"
  /\ buttons = {}
  /\ preview = NoPhoto
  /\ metadata \in ZipMetadata
  /\ zip_buffer = NoZip
  /\ now = 0
  /\ nBuilds = 0
  /\ lastEvent = "open"

\* one call build_zip(images, metadata)
CallBuildZip ==
  /\ lastEvent = "open"
  /\ lastEvent' = "build_zip"
  /\ IF build_zip_raises(images)
     THEN zip_buffer' = NoZip /\ msg' = "exception"
     ELSE zip_buffer' = build_zip(images, metadata) /\ msg' = "success"
  /\ UNCHANGED <<session, widgets, buttons, preview, metadata, now, nBuilds>>

ZipNext == CallBuildZip

SpecZip == ZipInit /\ [][ZipNext]_vars

\* ------------------------------------------------------------------ claims
\* the last event was a submitted frame that failed validation (0 or >= 2 faces)
FailedValidation(ph) ==
  ph # NoPhoto /\ ~validate_raises(ph) /\ ~validate_single_face(ph)

\* C1: in every reachable state step equals the number of accepted images and
\* the keys of images, in insertion order, are the first `step` pose keys.
C1_StepCountsPrefix ==
  /\ step = Len(images)
  /\ step <= Len(POSES)
  /\ Keys(images) = SubSeq(PoseKeys, 1, step)

\* C2: step and images change only in a run started by an Accept click, taken
\* while the Accept button is shown for a photo that is present and passed
\* validation; the run stores that photo under the current pose and adds at
\* most one to step (a run stopped after line 133 adds none); so every stored
\* image is a camera frame with exactly one detected face.
C2_StoredValid ==
  \A i \in 1..Len(images) :
    /\ images[i].img \in Frames
    /\ images[i].img.detectable
    /\ images[i].img.faces = 1

C2_OnlyAccept ==
  (step' # step \/ images' # images) =>
    /\ lastEvent' \in {"accept", "accept_cut"}
    /\ page = "capture"
    /\ "accept" \in buttons
    /\ photo # NoPhoto
    /\ ~validate_raises(photo)
    /\ validate_single_face(photo)
    /\ step' \in {step, step + 1}
    /\ images' = DictSet(images, PoseAt(step).key, photo)

C3_Frame ==
  (lastEvent' = "retake" \/ (lastEvent' = "submit" /\ FailedValidation(photo'))) =>
    /\ page = "capture"
    /\ page' = "capture"
    /\ step' = step
    /\ images' = images

C3_RetakeAndFailureKeepState == [][C3_Frame]_vars

C3_Witness ==
  /\ step = 2
  /\ lastEvent = "retake"
  /\ photo # NoPhoto
  /\ Len(images) = 2

\* C4: Start Enrollment with an empty name, an empty employee id or no consent
\* keeps the page at intro, reports the error and changes no session state.
C4_Frame ==
  (lastEvent' = "start" /\ page = "intro"
     /\ (wName = "" \/ wEmpId = "" \/ ~wConsent)) =>
    /\ msg' = "intro_error"
    /\ page' = "intro"
    /\ UNCHANGED session

C4_InvalidStartKeepsState == [][C4_Frame]_vars

C4_Witness ==
  /\ lastEvent = "start"
  /\ page = "intro"
  /\ msg = "intro_error"
  /\ wName # "" /\ wEmpId # "" /\ ~wConsent
  /\ name = Unset /\ emp_id = Unset

\* C5: a start with name, employee id and consent enters capture at step 0
\* with no image; each Accept run that reaches st.rerun() stores under the
\* pose key of its step, adds one to step and leaves the first step + 1 pose
\* keys in images, the fifth one leading to final; so final is reached with
\* step = 5 and the five pose keys in POSES order, the first accept storing
\* under "front".
C5_AtFinal ==
  /\ page = "final" => (step = 5 /\ Keys(images) = PoseKeys)
  /\ Len(images) >= 1 => images[1].pose = "front"

C5_StartStep ==
  (page = "intro" /\ page' # "intro") =>
    /\ wName # "" /\ wEmpId # "" /\ wConsent
    /\ lastEvent' = "start"
    /\ page' = "capture"
    /\ step' = 0
    /\ images' = << >>

C5_AcceptStep ==
  (lastEvent' = "accept" /\ page = "capture" /\ "accept" \in buttons) =>
    /\ step' = step + 1
    /\ images'[step + 1] = [pose |-> PoseKeys[step + 1], img |-> photo]
    /\ Keys(images') = SubSeq(PoseKeys, 1, step + 1)
    /\ page' = IF step + 1 = 5 THEN "final" ELSE "capture"

C6_Step ==
  /\ page = "final" => UNCHANGED session
  /\ page' = "intro" => page = "intro"
  /\ page = "final" => page' # "capture"

C6_FinalIsTerminal == [][C6_Step]_vars

C6_Witness ==
  /\ page = "final"
  /\ lastEvent = "download"
  /\ nBuilds = 3

\* C7: after a Retake, and after a frame that failed validation, no candidate
\* is pending: the Accept button is not offered until a new photo is submitted.
C7_CandidateDiscarded ==
  (lastEvent = "retake" \/ (lastEvent = "submit" /\ FailedValidation(photo))) =>
    /\ "accept" \notin buttons
    /\ preview = NoPhoto

\* C8: a submitted frame the detector cannot process is treated like a failed
\* validation: the retry prompt is shown, no exception escapes the run, and
\* the wizard stays at the same capture step.
C8_DetectorFailureIsRetry ==
  (lastEvent = "submit" /\ photo # NoPhoto /\ validate_raises(photo)) =>
    /\ msg = "face_error"
    /\ page = "capture"

\* C9: the metadata record and the archive are constructed once per completed
\* session: after the run that first reaches final, no later run of the final
\* page (a rerun, a press of the download button) builds a second record.
C9_BuiltOnce == nBuilds <= 1

\* C10: when build_zip returns, the archive holds one "<pose_key>.jpg" per key
\* of the mapping, in the mapping's order, then one "metadata.json" whose
\* content deserializes to the metadata record: len(images) + 1 entries.
C10_Archive ==
  (lastEvent = "build_zip" /\ msg = "success") =>
    LET z == zip_buffer
        n == Len(images)
    IN /\ Len(z) = n + 1
       /\ \A i \in 1..n : z[i].name = images[i].pose \o ".jpg"
       /\ \A i \in 1..n :
            Cardinality({j \in 1..Len(z) : z[j].name = images[i].pose \o ".jpg"}) = 1
       /\ z[n + 1].name = "metadata.json"
       /\ Cardinality({j \in 1..Len(z) : z[j].name = "metadata.json"}) = 1
       /\ json_loads(z[n + 1].data) = metadata

C10_Witness ==
  /\ lastEvent = "build_zip"
  /\ msg = "success"
  /\ Keys(images) = <<"left", "front">>
  /\ metadata.poses = <<"front", "left">>
  /\ Len(zip_buffer) = 3

\* C11: when JPEG encoding of an accepted image fails, build_zip returns no
\* archive and no download button is rendered; whenever a download is offered
\* the archive is complete: every image entry, then metadata.json.
C11_AllOrNothing ==
  /\ (page = "final" /\ \E i \in 1..Len(images) : ~images[i].img.encodable) =>
       /\ zip_buffer = NoZip
       /\ "download" \notin buttons
  /\ "download" \in buttons =>
       /\ page = "final"
       /\ Len(zip_buffer) = Len(images) + 1
       /\ \A i \in 1..Len(images) :
            /\ zip_buffer[i].name = images[i].pose \o ".jpg"
            /\ zip_buffer[i].data = jpeg_bytes(images[i].img)
       /\ zip_buffer[Len(images) + 1].name = "metadata.json"
  /\ zip_buffer # NoZip => "download" \in buttons

C11_Witness ==
  /\ page = "final"
  /\ lastEvent = "accept"
  /\ ~images[3].img.encodable
  /\ images[1].img.encodable
  /\ zip_buffer = NoZip
  /\ msg = "exception"
  /\ buttons = {}

\* C12: name and emp_id are written once, by the successful Start Enrollment
\* transition, with the values entered in the two text inputs, and never
\* change afterwards; before that transition they are not set.
C12_IdentityStep ==
  /\ (name' # name \/ emp_id' # emp_id) =>
       /\ lastEvent' = "start"
       /\ page = "intro" /\ page' = "capture"
       /\ name = Unset /\ emp_id = Unset
       /\ name' = wName /\ emp_id' = wEmpId
  /\ page \in {"capture", "final"} => (name' = name /\ emp_id' = emp_id)

C12_IdentityState ==
  /\ page = "intro" => (name = Unset /\ emp_id = Unset)
  /\ page \in {"capture", "final"} => (name \in Names /\ emp_id \in EmpIds)

C12_IdentityWrittenOnce == [](C12_IdentityState) /\ [][C12_IdentityStep]_vars

\* C13: Accept stores the frame that was passed to overlay_face_outline, not
\* the preview it returned: the preview shown is that frame with the guide
\* ellipse, and no stored image carries the ellipse.
C13_NoOverlayStored ==
  \A i \in 1..Len(images) : ~images[i].img.overlay

C13_AcceptStep ==
  (lastEvent' = "accept" /\ step' = step + 1) =>
    /\ preview = overlay_face_outline(photo)
    /\ preview # photo
    /\ images'[Len(images')].img = photo
    /\ images'[Len(images')].img # preview

C13_OriginalStored == [](C13_NoOverlayStored) /\ [][C13_AcceptStep]_vars

C13_Witness ==
  /\ lastEvent = "accept"
  /\ step = 1
  /\ images[1].img = photo
  /\ preview = overlay_face_outline(photo)
  /\ preview.overlay /\ ~images[1].img.overlay

\* C14: after an Accept that leads to the next capture step no candidate is
\* pending for the new pose: no photo is held, no preview is shown and the
\* Accept button is not offered until a photo is submitted again.
C14_CandidateMoved ==
  (lastEvent = "accept" /\ page = "capture") =>
    /\ photo = NoPhoto
    /\ preview = NoPhoto
    /\ "accept" \notin buttons

\* C15: page is final exactly when step = len(POSES); on the capture page
\* 0 <= step < len(POSES), so POSES[step] is in range; step never exceeds
\* len(POSES).
C15_StepInRange ==
  /\ step \in 0..Len(POSES)
  /\ page = "final" <=> step = Len(POSES)
  /\ page = "capture" => (step + 1) \in DOMAIN POSES
  /\ page \in {"intro", "capture", "final"}

\* C16: on the capture and final pages name and emp_id are set and non-empty,
\* the start transition was taken with consent given, and the final page's
\* metadata and file name are built from that identity.
C16_IdentityState ==
  /\ page \in {"capture", "final"} =>
       /\ name \notin {Unset, ""}
       /\ emp_id \notin {Unset, ""}
  /\ page = "final" =>
       /\ metadata.name = name
       /\ metadata.employee_id = emp_id
       /\ file_name(emp_id, name) \in
            {file_name(e, n) : e \in EmpIds \ {""}, n \in Names \ {""}}

C16_StartStep ==
  (page = "intro" /\ page' # "intro") =>
    /\ wConsent
    /\ name' = wName /\ emp_id' = wEmpId
    /\ name' # "" /\ emp_id' # ""

C16_IdentityDefined == [](C16_IdentityState) /\ [][C16_StartStep]_vars

C16_Witness ==
  /\ page = "final"
  /\ "download" \in buttons
  /\ metadata.employee_id = "E1"
  /\ metadata.name = "Al"
  /\ file_name(emp_id, name) = "E1_Al.zip"

\* C17: on the final page metadata.poses is the sequence of keys of the
\* accepted images, equals the five pose keys in POSES order, and equals the
\* names of the archive's image entries without ".jpg", in the same order.
C17_PosesMatchArchive ==
  page = "final" =>
    /\ metadata.poses = Keys(images)
    /\ metadata.poses = PoseKeys
    /\ zip_buffer # NoZip =>
         /\ Len(zip_buffer) = Len(metadata.poses) + 1
         /\ \A i \in 1..Len(metadata.poses) :
              zip_buffer[i].name = metadata.poses[i] \o ".jpg"
         /\ json_loads(zip_buffer[Len(zip_buffer)].data).poses = metadata.poses

C17_Witness ==
  /\ page = "final"
  /\ zip_buffer # NoZip
  /\ metadata.poses = <<"front", "left", "right", "up", "down">>
  /\ zip_buffer[4].name = "up.jpg"
  /\ images[1].img # images[2].img

====
